---- MODULE Spec2Model ----
(***************************************************************************)
(* minuet-server-web: the MinuetWeb static content server (src/index.ts).  *)
(*                                                                         *)
(* Strings are sequences of one-token strings (<<"/", "a", ".", "h">> is   *)
(* "/a.h"), so that substring, indexOf, split and join act on characters   *)
(* as they do in the source.  A token is a character or a run of letters   *)
(* that is never split ("html", "index"); it never contains "/", "?" or    *)
(* ".".  A string that the source cuts by a length (rootDir, and the path  *)
(* given to addBuffer up to rootDir.length) is written one character per   *)
(* token, so that its length counts its characters.                        *)
(* A file content is a record [size, data]: its byte length and a tag that *)
(* stands for its bytes.                                                   *)
(***************************************************************************)
EXTENDS Naturals, Sequences, FiniteSets, TLC

(***************************************************************************)
(* JavaScript string primitives                                            *)
(***************************************************************************)

\* the JavaScript value undefined
Undefined == "undefined"

\* String.prototype.substring(n)
Substring(s, n) == IF n >= Len(s) THEN <<>> ELSE SubSeq(s, n + 1, Len(s))

\* s.indexOf(u) == 0
StartsWith(s, u) == Len(u) <= Len(s) /\ SubSeq(s, 1, Len(u)) = u

\* s.split("//").join("/"): one left-to-right pass over non-overlapping "//"
RECURSIVE CollapseSlashes(_)
CollapseSlashes(s) ==
    IF Len(s) < 2 THEN s
    ELSE IF s[1] = "/" /\ s[2] = "/"
         THEN <<"/">> \o CollapseSlashes(Substring(s, 2))
         ELSE <<s[1]>> \o CollapseSlashes(Tail(s))

\* (mutant) the query stays on the path
KeepQuery(s) == s

\* s.split("?")[0]
RECURSIVE StripQuery(_)
StripQuery(s) ==
    IF s = <<>> \/ s[1] = "?" THEN <<>>
    ELSE <<s[1]>> \o StripQuery(Tail(s))

\* s.split("/"): the sequence of segments between slashes
RECURSIVE SplitSlash(_)
SplitSlash(s) ==
    IF \A i \in 1..Len(s) : s[i] # "/" THEN <<s>>
    ELSE LET k == CHOOSE i \in 1..Len(s) :
                      s[i] = "/" /\ \A j \in 1..(i - 1) : s[j] # "/"
         IN  <<SubSeq(s, 1, k - 1)>> \o SplitSlash(Substring(s, k))

(***************************************************************************)
(* node:path (posix)                                                       *)
(***************************************************************************)

\* a path without its trailing slashes
RECURSIVE TrimTrailingSlashes(_)
TrimTrailingSlashes(s) ==
    IF s # <<>> /\ s[Len(s)] = "/"
    THEN TrimTrailingSlashes(SubSeq(s, 1, Len(s) - 1))
    ELSE s

\* path.basename(p)
Basename(p) ==
    LET segs == SplitSlash(TrimTrailingSlashes(p))
    IN  segs[Len(segs)]

\* path.extname(p): from the last "." of the basename, "" when there is none
\* or when the only "." is the first character of the basename
Extname(p) ==
    LET b    == Basename(p)
        dots == {i \in 1..Len(b) : b[i] = "."}
    IN  IF dots = {} \/ b = <<".", ".">> THEN <<>>
        ELSE LET k == CHOOSE i \in dots : \A j \in dots : j <= i
             IN  IF k = 1 THEN <<>> ELSE SubSeq(b, k, Len(b))

\* path.dirname(p)
Dirname(p) ==
    LET t      == TrimTrailingSlashes(p)
        slashS == {i \in 1..Len(t) : t[i] = "/"}
    IN  IF t = <<>> THEN (IF p = <<>> THEN <<".">> ELSE <<"/">>)
        ELSE IF slashS = {} THEN <<".">>
        ELSE LET k == CHOOSE i \in slashS : \A j \in slashS : j <= i
                 d == TrimTrailingSlashes(SubSeq(t, 1, k - 1))
             IN  IF d = <<>> THEN <<"/">> ELSE d

(***************************************************************************)
(* The filesystem (node:fs), seen from the working directory.  A node is   *)
(* the sequence of the names on the way to it; the directories are fixed,  *)
(* the regular files and their contents are state.                         *)
(***************************************************************************)

NameR     == <<"h", "t", "d", "o", "c", "s">>
NameD     == <<"d">>
NameDD    == <<"d", "d">>
NameS     == <<"s">>
NameA     == <<"a", ".", "html">>
NameB     == <<"b", ".", "md">>
NameC     == <<"c">>
NameE     == <<"error", ".", "html">>
NameF     == <<"f", ".", "png">>
NameG     == <<"g", ".", "png">>
NameIndex == <<"index", ".", "html">>
NameHome  == <<"home", ".", "html">>
NameK     == <<"k", ".", "constructor">>
NameM     == <<"m", ".", "html">>
NameN     == <<"n", ".", "html">>

\* the order in which readdirSync lists the entries of a directory
NameOrder ==
    <<NameA, NameB, NameC, NameD, NameDD, NameE, NameF, NameG, NameHome,
      NameIndex, NameK, NameM, NameN, NameS>>

Cwd == <<>>

Dirs ==
    { Cwd, <<NameR>>, <<NameR, NameD>>, <<NameR, NameD, NameS>>,
      <<NameR, NameDD>> }

VARIABLES
    files,      \* the regular files: node -> content
    this,       \* the MinuetWeb instance: its option fields and its buffers
    last,       \* the last call made on the instance and what it produced
    build,      \* the last run of updateBuffer with buffering on: the files it
                \* saw, whether it returned, how many runs have returned in
                \* a row with the same options and no change of the files or
                \* the buffer in between (counted up to 2), and the calls of
                \* addBuffer made since
    calls       \* how many setting, addBuffer and filesystem changes were made

vars == <<files, this, last, build, calls>>

\* the node a path names after the kernel's component-by-component walk
\* (<<"?">> when a component is missing, lies above the working directory,
\* or a regular file is used as a directory)
NoNode == << <<"?">> >>

RECURSIVE WalkPath(_, _, _)
WalkPath(fl, cur, segs) ==
    IF segs = <<>> THEN cur
    ELSE IF cur \notin Dirs THEN NoNode
    ELSE LET seg == Head(segs)
         IN  IF seg = <<>> \/ seg = <<".">> THEN WalkPath(fl, cur, Tail(segs))
             ELSE IF seg = <<".", ".">>
                  THEN IF cur = Cwd THEN NoNode
                       ELSE WalkPath(fl, SubSeq(cur, 1, Len(cur) - 1), Tail(segs))
             ELSE LET nxt == Append(cur, seg)
                  IN  IF nxt \in Dirs \/ nxt \in DOMAIN fl
                      THEN WalkPath(fl, nxt, Tail(segs))
                      ELSE NoNode

ResolvePath(fl, p) ==
    IF p = <<>> \/ p[1] = "/" THEN NoNode
    ELSE WalkPath(fl, Cwd, SplitSlash(p))

\* fs.existsSync(p)
ExistsSync(fl, p) == ResolvePath(fl, p) # NoNode

\* Dirent.isDirectory() / a path that names a directory
IsDirectoryPath(fl, p) == ResolvePath(fl, p) \in Dirs

\* a path that names a regular file: readFileSync and statSync succeed on it
IsFilePath(fl, p) == ResolvePath(fl, p) \in DOMAIN fl

\* fs.readFileSync(p), for a path that names a regular file
ReadFileSync(fl, p) == fl[ResolvePath(fl, p)]

\* fs.readdirSync(dir): the names of the entries of a directory, in order
Readdir(fl, node) ==
    LET present(nm) == Append(node, nm) \in Dirs \/ Append(node, nm) \in DOMAIN fl
        F[i \in 0..Len(NameOrder)] ==
            IF i = 0 THEN <<>>
            ELSE IF present(NameOrder[i]) THEN Append(F[i - 1], NameOrder[i])
                 ELSE F[i - 1]
    IN  F[Len(NameOrder)]

(***************************************************************************)
(* The MinuetWeb instance                                                  *)
(***************************************************************************)

DefaultMimes ==
    [e \in { <<"jpg">>, <<"png">>, <<"gif">>, <<"tif">>, <<"tiff">>, <<"svg">>,
              <<"ico">>, <<"mp3">>, <<"aac">>, <<"txt">>, <<"css">>, <<"js">>,
              <<"html">>, <<"htm">>, <<"xml">>, <<"woff">>, <<"woff2">>,
              <<"ttf">>, <<"zip">>, <<"bz">>, <<"gz">>, <<"7z">>, <<"csv">> } |->
        CASE e = <<"jpg">>   -> "image/jpeg"
          [] e = <<"png">>   -> "image/png"
          [] e = <<"gif">>   -> "image/jig"
          [] e \in { <<"tif">>, <<"tiff">> } -> "image/tiff"
          [] e = <<"svg">>   -> "image/svg+xml"
          [] e = <<"ico">>   -> "image/vnd.microsoft.icon"
          [] e = <<"mp3">>   -> "audio/mp3"
          [] e = <<"aac">>   -> "audio/aac"
          [] e = <<"txt">>   -> "text/plain"
          [] e = <<"css">>   -> "text/css"
          [] e = <<"js">>    -> "text/javascript"
          [] e \in { <<"html">>, <<"htm">> } -> "text/html"
          [] e = <<"xml">>   -> "text/xml"
          [] e = <<"woff">>  -> "font/woff"
          [] e = <<"woff2">> -> "font/woff2"
          [] e = <<"ttf">>   -> "font/ttf"
          [] e = <<"zip">>   -> "application/zip"
          [] e = <<"bz">>    -> "application/x-bzip"
          [] e = <<"gz">>    -> "application/gzip"
          [] e = <<"7z">>    -> "application/x-7z-compressed"
          [] e = <<"csv">>   -> "text/csv"]

\* enum MinuetWebBufferName
\* (mutant) the reserved key is a path of the site
BufferNamePath          == <<"/", "#notfound">>

BufferNameNotFound      == <<"#notfound">>
BufferNameListNavigator == <<"#listNavigator">>

DefaultBufferingMaxSize == 8000000

\* notFound : string | boolean
NotFoundBool(b) == [type |-> "boolean", bool |-> b, str |-> <<>>]
NotFoundFile(f) == [type |-> "string", bool |-> FALSE, str |-> f]

\* A JavaScript object with string keys: its properties in insertion order,
\* each a record [key, value]
EmptyObject == <<>>

ObjKeys(o) == [i \in 1..Len(o) |-> o[i].key]

ObjHas(o, k) == \E i \in 1..Len(o) : o[i].key = k

ObjGet(o, k) == o[CHOOSE i \in 1..Len(o) : o[i].key = k].value

\* (mutant) an existing property keeps its value
ObjSetOnce(o, k, v) ==
    IF \E i \in 1..Len(o) : o[i].key = k THEN o
    ELSE Append(o, [key |-> k, value |-> v])

\* o[k] = v: an existing property keeps its place, a new one goes last
ObjSet(o, k, v) ==
    IF ObjHas(o, k)
    THEN [i \in 1..Len(o) |-> IF o[i].key = k THEN [key |-> k, value |-> v] ELSE o[i]]
    ELSE Append(o, [key |-> k, value |-> v])

\* the field initializers of class MinuetWeb
FieldDefaults ==
    [ url              |-> <<"/">>,
      rootDir          |-> <<"h", "t", "d", "o", "c", "s">>,
      mimes            |-> DefaultMimes,
      headers          |-> EmptyObject,
      buffering        |-> TRUE,
      bufferingMaxSize |-> DefaultBufferingMaxSize,
      directReading    |-> FALSE,
      notFound         |-> NotFoundBool(FALSE),
      directoryIndexs  |-> <<>>,
      listNavigator    |-> FALSE,
      buffers          |-> EmptyObject,
      directoryBuffers |-> <<>> ]

\* obj[key] on a plain object: an own property, else what Object.prototype
\* gives ("function" for the members it defines), else undefined
PrototypeKeys == { <<"constructor">>, <<"toString">>, <<"valueOf">> }

MimeLookup(mimes, ext) ==
    IF ext \in DOMAIN mimes THEN mimes[ext]
    ELSE IF ext \in PrototypeKeys THEN "function"
    ELSE Undefined

\* MinuetWeb.getMime
GetMime(t, target) == MimeLookup(t.mimes, Substring(Extname(target), 1))

\* MinuetWeb.hasMine
HasMine(t, target) ==
    LET ext == Substring(Extname(target), 1)
    IN  IF ext = <<>> THEN FALSE
        ELSE IF MimeLookup(t.mimes, ext) \in {Undefined, ""} THEN FALSE
        ELSE TRUE

\* MinuetWeb.addBuffer
AddBuffer(t, filePath, content) ==
    LET fileName == CollapseSlashes(t.url \o Substring(filePath, Len(t.rootDir)))
    IN  [t EXCEPT !.buffers = ObjSet(@, fileName, content)]

\* (mutant) the ceiling itself is skipped too
TooLargeAtCeiling(size, max) == size >= max

\* the test of search on the size of a file: TRUE when the file is skipped
TooLarge(size, max) == size > max

\* MinuetWeb.search: the walk of one directory into the instance; the
\* result is [this, ok], ok = FALSE when readdirSync or readFileSync threw
RECURSIVE Search(_, _, _)
RECURSIVE SearchList(_, _, _, _)
Search(fl, t, targetPath) ==
    IF ~IsDirectoryPath(fl, targetPath) THEN [this |-> t, ok |-> FALSE]
    ELSE SearchList(fl, t, targetPath, Readdir(fl, ResolvePath(fl, targetPath)))

SearchList(fl, t, targetPath, list) ==
    IF list = <<>> THEN [this |-> t, ok |-> TRUE]
    ELSE LET name  == Head(list)
             child == targetPath \o <<"/">> \o name
         IN  IF IsDirectoryPath(fl, child)
             THEN LET pushed == [t EXCEPT !.directoryBuffers =
                                     Append(@, CollapseSlashes(
                                         Substring(child, Len(t.rootDir))))]
                      sub    == Search(fl, pushed, child)
                  IN  IF sub.ok THEN SearchList(fl, sub.this, targetPath, Tail(list))
                      ELSE sub
             ELSE IF ~HasMine(t, name)
                  THEN SearchList(fl, t, targetPath, Tail(list))
             ELSE IF TooLarge(ReadFileSync(fl, child).size, t.bufferingMaxSize)
                  THEN SearchList(fl, t, targetPath, Tail(list))
             ELSE SearchList(fl, AddBuffer(t, child, ReadFileSync(fl, child)),
                             targetPath, Tail(list))

\* the listing template shipped as __dirname + "/listnavigator/index.html"
ListNavigatorTemplate == [size |-> 1000, data |-> "listnavigator/index.html"]

\* (mutant) the walk adds to what the last walk left
KeepBuffers(t) == t

\* what updateBuffer starts the walk from
ResetBuffers(t) == [t EXCEPT !.buffers = EmptyObject, !.directoryBuffers = << <<"/">> >>]

\* MinuetWeb.updateBuffer: [this, ok], ok = FALSE when the call threw
UpdateBuffer(fl, t) ==
    IF ~t.buffering THEN [this |-> t, ok |-> TRUE]
    ELSE LET walked == Search(fl, ResetBuffers(t), t.rootDir)
         IN  IF ~walked.ok THEN walked
             ELSE LET w == walked.this
                      n == IF t.notFound.type = "string"
                           THEN IF IsFilePath(fl, t.notFound.str)
                                THEN [this |-> [w EXCEPT !.buffers =
                                          ObjSet(@, BufferNameNotFound,
                                                 ReadFileSync(fl, t.notFound.str))],
                                      ok |-> TRUE]
                                ELSE [this |-> w, ok |-> FALSE]
                           ELSE [this |-> w, ok |-> TRUE]
                  IN  IF ~n.ok THEN n
                      ELSE IF t.listNavigator
                           THEN [this |-> [n.this EXCEPT !.buffers =
                                     ObjSet(@, BufferNameListNavigator,
                                            ListNavigatorTemplate)],
                                 ok |-> TRUE]
                           ELSE n

\* MinuetWebOption: every field is <<>> when not given, <<value>> when given
NoOptions ==
    [ url |-> <<>>, rootDir |-> <<>>, mimes |-> <<>>, headers |-> <<>>,
      buffering |-> <<>>, bufferingMaxSize |-> <<>>, directReading |-> <<>>,
      notFound |-> <<>>, directoryIndexs |-> <<>>, listNavigator |-> <<>> ]

Given(cur, opt) == IF opt # <<>> THEN opt[1] ELSE cur

\* the assignments of setting, before it calls updateBuffer
Assign(t, options) ==
    [t EXCEPT
        !.url              = Given(@, options.url),
        !.rootDir          = Given(@, options.rootDir),
        !.mimes            = Given(@, options.mimes),
        !.headers          = Given(@, options.headers),
        !.buffering        = Given(@, options.buffering),
        !.bufferingMaxSize = Given(@, options.bufferingMaxSize),
        !.directReading    = Given(@, options.directReading),
        !.notFound         = Given(@, options.notFound),
        !.directoryIndexs  = Given(@, options.directoryIndexs),
        !.listNavigator    = Given(@, options.listNavigator)]

\* MinuetWeb.setting
Setting(fl, t, options) == UpdateBuffer(fl, Assign(t, options))

(***************************************************************************)
(* Request handling.  A ServerResponse is [statusCode, statusSet, headers, *)
(* body, ended]: statusCode is 200 until it is assigned, body is the       *)
(* sequence of the chunks written, ended counts the calls of end().  A     *)
(* method that writes returns [ret, res, this] with ret one of "true",     *)
(* "false" and "threw".                                                    *)
(***************************************************************************)

NewResponse ==
    [ statusCode |-> 200, statusSet |-> FALSE, headers |-> EmptyObject,
      body |-> <<>>, ended |-> 0 ]

\* a chunk of file bytes, and the page isDirectory renders from the template
BytesChunk(content) ==
    [ kind |-> "bytes", content |-> content, url |-> <<>>, back |-> <<>>,
      lists |-> <<>> ]

ListingChunk(template, url, back, lists) ==
    [ kind |-> "listing", content |-> template, url |-> url, back |-> back,
      lists |-> lists ]

\* a value that may be undefined
Undef    == [def |-> FALSE, val |-> <<>>]
Def(v)   == [def |-> TRUE, val |-> v]

\* MinuetWeb.setHeader: [res, ok]; ServerResponse.setHeader throws on an
\* undefined value, the headers before it in key order are already set
RECURSIVE SetHeaderFrom(_, _, _)
SetHeaderFrom(headers, n, res) ==
    IF n > Len(headers) THEN [res |-> res, ok |-> TRUE]
    ELSE IF headers[n].value = Undefined THEN [res |-> res, ok |-> FALSE]
    ELSE SetHeaderFrom(headers, n + 1,
             [res EXCEPT !.headers = ObjSet(@, headers[n].key, headers[n].value)])

SetHeader(t, res) == SetHeaderFrom(t.headers, 1, res)

\* MinuetWeb.existFile
ExistFile(fl, t, targetPath) ==
    ExistsSync(fl, CollapseSlashes(t.rootDir \o <<"/">> \o targetPath))

\* MinuetWeb.readFile: [ok, def, val]; ok = FALSE when readFileSync threw,
\* def = FALSE when the result is undefined
ReadFile(fl, t, targetPath) ==
    IF t.buffering
    THEN IF ObjHas(t.buffers, targetPath)
         THEN [ok |-> TRUE, def |-> TRUE, val |-> ObjGet(t.buffers, targetPath)]
         ELSE [ok |-> TRUE, def |-> FALSE, val |-> <<>>]
    ELSE LET targetFullPath == CollapseSlashes(t.rootDir \o <<"/">> \o targetPath)
         IN  IF IsFilePath(fl, targetFullPath)
             THEN [ok |-> TRUE, def |-> TRUE, val |-> ReadFileSync(fl, targetFullPath)]
             ELSE [ok |-> FALSE, def |-> FALSE, val |-> <<>>]

\* res.write(content); res.end(): write throws on undefined
WriteAndEnd(t, res, content) ==
    IF ~content.def THEN [ret |-> "threw", res |-> res, this |-> t]
    ELSE [ ret  |-> "true",
           res  |-> [res EXCEPT !.body = Append(@, BytesChunk(content.val)),
                                !.ended = @ + 1],
           this |-> t ]

\* (mutant) a not-found file is handled as notFound = true: a bare 404
ErrorWithoutPage(fl, t, res) ==
    IF t.notFound.type = "boolean" /\ ~t.notFound.bool
    THEN [ret |-> "false", res |-> res, this |-> t]
    ELSE [ ret  |-> "true",
           res  |-> [res EXCEPT !.statusCode = 404, !.statusSet = TRUE,
                                !.ended = @ + 1],
           this |-> t ]

\* MinuetWeb.error
Error(fl, t, res) ==
    IF t.notFound.type = "boolean"
    THEN IF ~t.notFound.bool
         THEN [ret |-> "false", res |-> res, this |-> t]
         ELSE [ ret  |-> "true",
                res  |-> [res EXCEPT !.statusCode = 404, !.statusSet = TRUE,
                                     !.ended = @ + 1],
                this |-> t ]
    ELSE LET notFoundPath == IF t.buffering THEN BufferNameNotFound
                             ELSE t.notFound.str
             content      == ReadFile(fl, t, notFoundPath)
         IN  IF ~content.ok THEN [ret |-> "threw", res |-> res, this |-> t]
             ELSE WriteAndEnd(t, [res EXCEPT !.statusCode = 404, !.statusSet = TRUE],
                              content)

\* the candidates of getUrl: the path, then the path with each index file
UrlList(t, url) ==
    <<url>> \o [n \in 1..Len(t.directoryIndexs) |->
                   CollapseSlashes(url \o <<"/">> \o t.directoryIndexs[n])]

\* the test of getUrl on one candidate
UrlMatches(fl, t, url_) ==
    IF t.directReading
    THEN ExistsSync(fl, t.rootDir \o <<"/">> \o url_)
    ELSE ObjHas(t.buffers, url_)

\* (mutant) the index files are tried before the path itself
GetUrlIndexFirst(fl, t, baseUrl) ==
    LET urlList == Tail(UrlList(t, StripQuery(baseUrl))) \o <<StripQuery(baseUrl)>>
        hits    == {n \in 1..Len(urlList) : UrlMatches(fl, t, urlList[n])}
    IN  IF hits = {} THEN Undef
        ELSE Def(urlList[CHOOSE n \in hits : \A m \in hits : n <= m])

\* MinuetWeb.getUrl: the first candidate that matches, else undefined
GetUrl(fl, t, baseUrl) ==
    LET urlList == UrlList(t, StripQuery(baseUrl))
        hits    == {n \in 1..Len(urlList) : UrlMatches(fl, t, urlList[n])}
    IN  IF hits = {} THEN Undef
        ELSE Def(urlList[CHOOSE n \in hits : \A m \in hits : n <= m])

\* MinuetWeb.getDirectories
GetDirectories(t, url) ==
    IF t.buffering
    THEN LET isChild(p)  == Len(SplitSlash(Substring(p, Len(url)))) = 2
             dirTest(d)  == StartsWith(d, url) /\ d # url /\ isChild(d)
             fileTest(f) == StartsWith(f, url) /\ isChild(f)
         IN  SelectSeq(t.directoryBuffers, dirTest)
                 \o SelectSeq(ObjKeys(t.buffers), fileTest)
    ELSE <<>>

\* one row of the listing: the link and its text
ListRow(l_) == [href |-> l_, text |-> Basename(l_)]

\* the request path isDirectory looks up: no query, one trailing slash less
TrimmedUrl(reqUrl) ==
    LET url == StripQuery(reqUrl)
    IN  IF url # <<>> /\ url[Len(url)] = "/" THEN SubSeq(url, 1, Len(url) - 1)
        ELSE url

\* MinuetWeb.isDirectory: [ret, res, this].  The {comment} timestamp of the
\* page is left out of the chunk.
IsDirectory(t, reqUrl, res) ==
    LET url == TrimmedUrl(reqUrl)
    IN  IF t.buffering
        THEN IF \A n \in 1..Len(t.directoryBuffers) : t.directoryBuffers[n] # url
             THEN [ret |-> "false", res |-> res, this |-> t]
             ELSE IF ~ObjHas(t.buffers, BufferNameListNavigator)
             THEN [ret |-> "threw", res |-> res, this |-> t]
             ELSE LET list == GetDirectories(t, url)
                      page == ListingChunk(
                                  ObjGet(t.buffers, BufferNameListNavigator),
                                  url, Dirname(url),
                                  [n \in 1..Len(list) |-> ListRow(list[n])])
                  IN  [ ret  |-> "true",
                        res  |-> [res EXCEPT !.body = Append(@, page),
                                             !.ended = @ + 1],
                        this |-> t ]
        ELSE [ret |-> "true", res |-> res, this |-> t]

\* MinuetWeb.listen
Listen(fl, t, reqUrl, res) ==
    LET url0 == StripQuery(reqUrl)
        url  == GetUrl(fl, t, url0)
    IN  IF ~url.def \/ url.val = <<>>
        THEN LET dir == IF t.listNavigator THEN IsDirectory(t, reqUrl, res)
                        ELSE [ret |-> "false", res |-> res, this |-> t]
             IN  IF dir.ret = "false" THEN Error(fl, t, res) ELSE dir
        ELSE LET content == ReadFile(fl, t, url.val)
             IN  IF ~content.ok THEN [ret |-> "threw", res |-> res, this |-> t]
                 ELSE LET res1 == [res EXCEPT !.statusCode = 200, !.statusSet = TRUE]
                          t1   == [t EXCEPT !.headers =
                                      ObjSet(@, "content-type", GetMime(t, url.val))]
                          set  == SetHeader(t1, res1)
                      IN  IF ~set.ok
                          THEN [ret |-> "threw", res |-> set.res, this |-> t1]
                          ELSE WriteAndEnd(t1, set.res, content)

(***************************************************************************)
(* The state machine: one instance, the calls made on it, and the changes  *)
(* other programs make to the files.  The actions take the sets their      *)
(* inputs are drawn from; Spec serves requests, SpecBuild has the larger   *)
(* configurations and file changes and no requests.                        *)
(***************************************************************************)

MaxSettings == 1
MaxAddBuffers == 1
MaxFileChanges == 1

Str(name) == <<"/">> \o name

UrlP == <<"/", "p">>

\* an access URL "/js/app.js", one character per token up to the extension
UrlApp == <<"/", "j", "s", "/", "a", "p", "p", ".", "js">>

\* a request path that climbs out of the root directory: "/../error.html"
UrlAbove == <<"/", ".", ".">> \o Str(NameE)

\* a headers option
CacheHeaders == << [key |-> "cache-control", value |-> "max-age=60"] >>

\* the files before the instance is constructed
InitialFiles ==
    LET small(tag) == [size |-> 100, data |-> tag]
    IN  ( <<NameE>>                   :> small("error.html") )
     @@ ( <<NameR, NameA>>            :> [size |-> DefaultBufferingMaxSize,
                                          data |-> "a.html"] )
     @@ ( <<NameR, NameB>>            :> small("b.md") )
     @@ ( <<NameR, NameC>>            :> small("c") )
     @@ ( <<NameR, NameK>>            :> small("k.constructor") )
     @@ ( <<NameR, NameM>>            :> [size |-> DefaultBufferingMaxSize + 1,
                                          data |-> "m.html"] )
     @@ ( <<NameR, NameD, NameIndex>> :> small("d/index.html") )
     @@ ( <<NameR, NameD, NameS, NameF>> :> small("d/s/f.png") )
     @@ ( <<NameR, NameDD, NameG>>    :> small("dd/g.png") )

NoCall(op, ok) ==
    [ op |-> op, req |-> <<>>, ret |-> IF ok THEN "ok" ELSE "threw",
      res |-> NewResponse ]

\* the record of a run of updateBuffer: nothing new when buffering is off
Built(old, fl, t, ok, same) ==
    IF t.buffering
    THEN [ ran |-> TRUE, files |-> fl, ok |-> ok,
           row |-> IF ~ok THEN 0
                   ELSE IF same /\ old.row >= 1 THEN 2 ELSE 1,
           added |-> <<>> ]
    ELSE [old EXCEPT !.row = 0]

NeverBuilt(fl) ==
    [ran |-> FALSE, files |-> fl, ok |-> TRUE, row |-> 0, added |-> <<>>]

\* new MinuetWeb(options): only a constructor that returns leaves an instance
InitWith(optionSet) ==
    /\ files = InitialFiles
    /\ \E options \in optionSet :
          \E made \in { Setting(files, FieldDefaults, options) } :
              /\ made.ok
              /\ this = made.this
    /\ last = NoCall("new", TRUE)
    /\ build = Built(NeverBuilt(files), files, this, TRUE, FALSE)
    /\ calls = [setting |-> 0, addBuffer |-> 0, files |-> 0]

DoSettingWith(optionSet) ==
    /\ calls.setting < MaxSettings
    /\ \E options \in optionSet :
          \E made \in { Setting(files, this, options) } :
              /\ this' = made.this
              /\ last' = NoCall("setting", made.ok)
              /\ build' = Built(build, files, made.this, made.ok,
                                 Assign(this, options) = this)
    /\ calls' = [calls EXCEPT !.setting = @ + 1]
    /\ UNCHANGED files

DoUpdateBuffer ==
    /\ \E made \in { UpdateBuffer(files, this) } :
           /\ this' = made.this
           /\ last' = NoCall("updateBuffer", made.ok)
           /\ build' = Built(build, files, made.this, made.ok, TRUE)
    /\ UNCHANGED <<files, calls>>

DoAddBufferWith(pathSet, contentSet) ==
    /\ calls.addBuffer < MaxAddBuffers
    /\ \E filePath \in pathSet, content \in contentSet :
          /\ this' = AddBuffer(this, filePath, content)
          /\ build' = [build EXCEPT !.row = 0,
                          !.added = Append(@, [filePath |-> filePath,
                                               content |-> content])]
    /\ last' = NoCall("addBuffer", TRUE)
    /\ calls' = [calls EXCEPT !.addBuffer = @ + 1]
    /\ UNCHANGED files

DoListenWith(requestSet) ==
    /\ \E reqUrl \in requestSet :
          \E out \in { Listen(files, this, reqUrl, NewResponse) } :
              /\ this' = out.this
              /\ last' = [op |-> "listen", req |-> reqUrl, ret |-> out.ret,
                          res |-> out.res]
    /\ UNCHANGED <<files, build, calls>>

WriteFileWith(nodeSet, contentSet) ==
    /\ calls.files < MaxFileChanges
    /\ \E node \in nodeSet, content \in contentSet :
          files' = [n \in DOMAIN files \cup {node} |->
                        IF n = node THEN content ELSE files[n]]
    /\ last' = NoCall("files", TRUE)
    /\ build' = [build EXCEPT !.row = 0]
    /\ calls' = [calls EXCEPT !.files = @ + 1]
    /\ UNCHANGED this

DeleteFileWith(nodeSet) ==
    /\ calls.files < MaxFileChanges
    /\ \E node \in nodeSet \cap DOMAIN files :
          files' = [n \in DOMAIN files \ {node} |-> files[n]]
    /\ last' = NoCall("files", TRUE)
    /\ build' = [build EXCEPT !.row = 0]
    /\ calls' = [calls EXCEPT !.files = @ + 1]
    /\ UNCHANGED this

WrittenContents == { [size |-> 100, data |-> "written"] }
AddedContents == { [size |-> 100, data |-> "added"] }

(***************************************************************************)
(* Spec: the instance serving requests                                     *)
(***************************************************************************)

ConstructorOptions ==
    { [NoOptions EXCEPT !.buffering = b, !.directReading = dr, !.notFound = nf,
                        !.directoryIndexs = di, !.listNavigator = ln] :
        b  \in { <<>>, <<FALSE>> },
        dr \in { <<>>, <<TRUE>> },
        nf \in { <<>>, <<NotFoundFile(NameE)>> },
        di \in { <<>>, << <<NameHome, NameIndex>> >> },
        ln \in { <<>>, <<TRUE>> } }

SettingOptions ==
    { [NoOptions EXCEPT !.url = <<UrlP>>],
      [NoOptions EXCEPT !.notFound = <<NotFoundBool(TRUE)>>],
      [NoOptions EXCEPT !.headers = <<CacheHeaders>>] }

Requests ==
    { Str(NameA), Str(NameM), Str(NameK), <<"/">>, Str(NameD),
      Str(NameD) \o <<"/", "?", "q">>, UrlP \o Str(NameA), UrlApp,
      <<"/", "#notfound">>, UrlAbove }

WrittenFiles == { <<NameE>> }
DeletedFiles == { <<NameE>>, <<NameR, NameA>> }
AddedPaths == { NameR \o Str(NameA) \o Str(NameIndex), UrlApp }

Init == InitWith(ConstructorOptions)

DoSetting == DoSettingWith(SettingOptions)
DoAddBuffer == DoAddBufferWith(AddedPaths, AddedContents)
DoListen == DoListenWith(Requests)
WriteFile == WriteFileWith(WrittenFiles, WrittenContents)
DeleteFile == DeleteFileWith(DeletedFiles)

Next ==
    \/ DoSetting
    \/ DoUpdateBuffer
    \/ DoAddBuffer
    \/ DoListen
    \/ WriteFile
    \/ DeleteFile

Spec == Init /\ [][Next]_vars

(***************************************************************************)
(* SpecBuild: construction, setting, updateBuffer and addBuffer over more  *)
(* configurations and file changes                                         *)
(***************************************************************************)

BuildConstructorOptions ==
    { [NoOptions EXCEPT !.url = u, !.rootDir = rd, !.bufferingMaxSize = mx,
                        !.notFound = nf] :
        u  \in { <<>>, <<UrlP>> },
        rd \in { <<>>, <<NameR \o <<"/">> >>, <<NameR \o Str(NameD)>> },
        mx \in { <<>>, <<100>> },
        nf \in { <<>>, <<NotFoundFile(NameE)>> } }

BuildSettingOptions ==
    { [NoOptions EXCEPT !.url = <<UrlP \o <<"/">> >>],
      [NoOptions EXCEPT !.bufferingMaxSize = <<100>>],
      [NoOptions EXCEPT !.buffering = <<FALSE>>],
      [NoOptions EXCEPT !.listNavigator = <<TRUE>>],
      [NoOptions EXCEPT !.mimes =
          << [e \in { <<"md">>, <<"png">> } |->
                 IF e = <<"md">> THEN "text/markdown" ELSE "image/png"] >>] }

BuildWrittenFiles == { <<NameR, NameA>>, <<NameR, NameN>>, <<NameR, NameD, NameS, NameF>> }
BuildWrittenContents ==
    WrittenContents \cup { [size |-> DefaultBufferingMaxSize + 1, data |-> "grown"] }
BuildDeletedFiles == { <<NameE>>, <<NameR, NameDD, NameG>> }
\* the last one is "htdocs///n.html"
BuildAddedPaths ==
    { NameR \o Str(NameN), NameR \o Str(NameD),
      NameR \o <<"/", "/">> \o Str(NameN) }

InitBuild == InitWith(BuildConstructorOptions)

BuildSetting == DoSettingWith(BuildSettingOptions)
BuildAddBuffer == DoAddBufferWith(BuildAddedPaths, AddedContents)
BuildWriteFile == WriteFileWith(BuildWrittenFiles, BuildWrittenContents)
BuildDeleteFile == DeleteFileWith(BuildDeletedFiles)

NextBuild ==
    \/ BuildSetting
    \/ DoUpdateBuffer
    \/ BuildAddBuffer
    \/ BuildWriteFile
    \/ BuildDeleteFile

SpecBuild == InitBuild /\ [][NextBuild]_vars

(***************************************************************************)
(* The vocabulary of the claims                                            *)
(***************************************************************************)

\* the last call was a build (constructor, setting or updateBuffer) with
\* buffering on, and it returned
BuildCompleted ==
    /\ last.op \in {"new", "setting", "updateBuffer"}
    /\ last.ret = "ok"
    /\ this.buffering

\* the Asset Store and the Directory Index
AssetStore == this.buffers
DirectoryIndex == this.directoryBuffers
StoreKeys == {AssetStore[i].key : i \in 1..Len(AssetStore)}
SentinelKeys == {BufferNameNotFound, BufferNameListNavigator}

\* names joined by "/", each preceded by one
RECURSIVE JoinNames(_)
JoinNames(names) ==
    IF names = <<>> THEN <<>>
    ELSE <<"/">> \o Head(names) \o JoinNames(Tail(names))

NonEmptyNames(segs) == SelectSeq(segs, LAMBDA x : x # <<>>)

\* the node of the root directory, and the files at any depth under it
RootNode == ResolvePath(files, this.rootDir)

UnderRoot(node) ==
    /\ Len(node) > Len(RootNode)
    /\ SubSeq(node, 1, Len(RootNode)) = RootNode

FilesUnderRoot == {node \in DOMAIN files : UnderRoot(node)}

\* url + (file path minus rootDir), as a path without doubled slashes
PublicKey(node) ==
    JoinNames(NonEmptyNames(SplitSlash(this.url))
                  \o SubSeq(node, Len(RootNode) + 1, Len(node)))

\* the extension of a file name: what follows its last ".", if anything
\* precedes that "."
FileExtension(node) ==
    LET name == node[Len(node)]
        dots == {i \in 2..Len(name) : name[i] = "."}
    IN  IF dots = {} THEN <<>>
        ELSE SubSeq(name, (CHOOSE i \in dots : \A j \in dots : j <= i) + 1, Len(name))

HasMimeEntry(node) == FileExtension(node) \in DOMAIN this.mimes

Eligible(node) == HasMimeEntry(node) /\ files[node].size <= this.bufferingMaxSize

(***************************************************************************)
(* C1: after a build completes, every file under rootDir whose extension   *)
(* has an entry in mimes and whose size is at most bufferingMaxSize (the   *)
(* ceiling included) has an entry in the Asset Store at url + (path minus  *)
(* rootDir), holding the bytes of the file.                                *)
(***************************************************************************)
C1_EligibleFilesBuffered ==
    BuildCompleted =>
        \A node \in FilesUnderRoot :
            Eligible(node) =>
                /\ ObjHas(AssetStore, PublicKey(node))
                /\ ObjGet(AssetStore, PublicKey(node)) = files[node]

\* a build that buffered a file of exactly the ceiling, two levels down a
\* root given with a trailing slash, under a url prefix
C1_Witness ==
    /\ BuildCompleted
    /\ this.url = UrlP
    /\ this.rootDir = NameR \o <<"/">>
    /\ this.bufferingMaxSize = 100
    /\ ObjHas(AssetStore, UrlP \o Str(NameD) \o Str(NameS) \o Str(NameF))
    /\ files[<<NameR, NameD, NameS, NameF>>].size = 100

(***************************************************************************)
(* C2: right after a build completes, the Asset Store has no entry for a   *)
(* file under rootDir whose extension is absent from mimes (files without  *)
(* extension included) or whose size exceeds bufferingMaxSize.             *)
(***************************************************************************)
C2_ExcludedFilesAbsent ==
    BuildCompleted =>
        \A node \in FilesUnderRoot :
            ~Eligible(node) => ~ObjHas(AssetStore, PublicKey(node))

(***************************************************************************)
(* C9: a rebuild that follows a completed build, with the files and the    *)
(* options unchanged, leaves the Asset Store and the Directory Index as    *)
(* they were: same keys, same bytes, no directory twice.                   *)
(***************************************************************************)
C9_RebuildIdempotent ==
    [][ ( /\ build.row >= 1
          /\ this.buffering
          /\ last'.op = "updateBuffer" )
        => ( /\ this'.buffers = this.buffers
             /\ this'.directoryBuffers = this.directoryBuffers ) ]_vars

\* the second of two rebuilds in a row, of a store with files, directories
\* and the not-found page
C9_Witness ==
    /\ last.op = "updateBuffer"
    /\ build.row = 2
    /\ Len(DirectoryIndex) >= 4
    /\ ObjHas(AssetStore, BufferNameNotFound)
    /\ ObjHas(AssetStore, Str(NameD) \o Str(NameIndex))

(***************************************************************************)
(* Requests: what the claims call a candidate, a match, a miss, a listing  *)
(***************************************************************************)

DirectorySet == {DirectoryIndex[i] : i \in 1..Len(DirectoryIndex)}

\* a path written without empty segments
NormalPath(p) == JoinNames(NonEmptyNames(SplitSlash(p)))

\* the query-stripped path of a request
BarePath(req) == StripQuery(req)

\* path + "/" + candidate for every entry of directoryIndexs, in order
Substitutions(req) ==
    [n \in 1..Len(this.directoryIndexs) |->
        NormalPath(BarePath(req) \o <<"/">> \o this.directoryIndexs[n])]

Candidates(req) == <<BarePath(req)>> \o Substitutions(req)

\* a candidate matches when it is an asset or, with directReading, when it
\* exists under the root directory
CandidateMatches(c) ==
    IF this.directReading
    THEN ExistsSync(files, this.rootDir \o <<"/">> \o c)
    ELSE c \in StoreKeys

First(S) == CHOOSE n \in S : \A m \in S : n <= m

\* the request path resolves to no content
Missed(req) == ~GetUrl(files, this, req).def

\* the listing renderer applies: listNavigator is on and the path, without
\* its trailing slash, is in the Directory Index
ListingApplies(req) == this.listNavigator /\ TrimmedUrl(req) \in DirectorySet

Listened == last.op = "listen"

\* the response is complete, with this status and this one chunk as body
Responded(status, chunk) ==
    /\ last.ret = "true"
    /\ last.res.statusCode = status
    /\ last.res.body = <<chunk>>
    /\ last.res.ended = 1

\* the response is the listing page
ListingPage ==
    /\ last.ret = "true"
    /\ last.res.statusCode = 200
    /\ Len(last.res.body) = 1
    /\ last.res.body[1].kind = "listing"
    /\ last.res.ended = 1

C4_DirectoryIndexServed ==
    Listened =>
        LET subs == Substitutions(last.req)
            hits == {n \in 1..Len(subs) : subs[n] \in StoreKeys}
        IN  (BarePath(last.req) \notin StoreKeys /\ hits # {}) =>
                Responded(200, BytesChunk(ObjGet(AssetStore, subs[First(hits)])))

(***************************************************************************)
(* C5: with notFound = false, a listen call whose path does not resolve    *)
(* and to which the listing renderer does not apply returns false and has  *)
(* set no status, written nothing and not ended the response, for every    *)
(* buffering, directReading and listNavigator.                             *)
(***************************************************************************)
C5_UnhandledMiss ==
    ( /\ Listened
      /\ this.notFound = NotFoundBool(FALSE)
      /\ Missed(last.req)
      /\ ~ListingApplies(last.req) )
    => ( last.ret = "false" /\ last.res = NewResponse )

ParentPath(p) ==
    LET names == NonEmptyNames(SplitSlash(p))
    IN  IF names = <<>> THEN <<>> ELSE JoinNames(SubSeq(names, 1, Len(names) - 1))

ChildrenOf(dir) ==
    {p \in DirectorySet \cup (StoreKeys \ SentinelKeys) :
        NormalPath(p) # NormalPath(dir) /\ ParentPath(p) = NormalPath(dir)}

C7_ListingRows ==
    (Listened /\ ListingPage) =>
        LET rows == last.res.body[1].lists
        IN  {rows[i].href : i \in 1..Len(rows)} = ChildrenOf(TrimmedUrl(last.req))

(***************************************************************************)
(* C8: with listNavigator on, a request that resolves to no content gets   *)
(* the status-200 listing page exactly when its path without the trailing  *)
(* slash is in the Directory Index; the root "/" is always in it, so a     *)
(* request for "/" gets the page when there is no root index file.         *)
(***************************************************************************)
C8_ListingWhenIndexed ==
    (Listened /\ this.listNavigator /\ Missed(last.req)) =>
        /\ ListingPage <=> TrimmedUrl(last.req) \in DirectorySet
        /\ (this.buffering /\ BarePath(last.req) = <<"/">>) => ListingPage

(***************************************************************************)
(* C10: with buffering and directReading on, a request for a file that is  *)
(* under rootDir at the request path without the url prefix, and is not in *)
(* the Asset Store, is answered 200 with the content the file has on disk. *)
(***************************************************************************)
WithoutUrlPrefix(p) ==
    IF NormalPath(this.url) = <<>> THEN p
    ELSE Substring(p, Len(NormalPath(this.url)))

C10_DirectReadingServesDisk ==
    ( /\ Listened
      /\ this.buffering
      /\ this.directReading
      /\ StartsWith(BarePath(last.req), NormalPath(this.url))
      /\ IsFilePath(files, this.rootDir \o <<"/">> \o WithoutUrlPrefix(BarePath(last.req)))
      /\ BarePath(last.req) \notin StoreKeys )
    => Responded(200, BytesChunk(ReadFileSync(files,
           this.rootDir \o <<"/">> \o WithoutUrlPrefix(BarePath(last.req)))))

\* the file on disk that the request path names: rootDir + the path
\* without the url prefix
RequestedFile(req) == this.rootDir \o <<"/">> \o WithoutUrlPrefix(BarePath(req))

NamesFile(req) ==
    /\ StartsWith(BarePath(req), NormalPath(this.url))
    /\ IsFilePath(files, RequestedFile(req))

\* what a listen call returned and the response it left
Outcome(out) == [ret |-> out.ret, res |-> out.res]

(***************************************************************************)
(* C11: with buffering off no buffer is created by the constructor, and    *)
(* every listen call for a path that names an existing file under rootDir  *)
(* responds 200 with the content the file has on disk at that time,        *)
(* whatever directReading is.                                              *)
(***************************************************************************)
C11_UnbufferedServesDisk ==
    /\ (last.op = "new" /\ ~this.buffering) => AssetStore = EmptyObject
    /\ (Listened /\ ~this.buffering /\ NamesFile(last.req)) =>
           Responded(200, BytesChunk(ReadFileSync(files, RequestedFile(last.req))))

(***************************************************************************)
(* C12: with buffering on and no rebuild since the last completed build,   *)
(* the response of listen for a path that is in the Asset Store is the one *)
(* it would be over the files as that build saw them, whatever was         *)
(* changed, added or deleted under the root directory since; and a file    *)
(* added after the build, not in the store, is a miss while directReading  *)
(* is off.                                                                 *)
(***************************************************************************)
C12_StoreOutlivesFiles ==
    (Listened /\ this.buffering /\ build.ran /\ build.ok) =>
        /\ BarePath(last.req) \in StoreKeys =>
               Outcome(last) = Outcome(Listen(build.files, this, last.req, NewResponse))
        /\ ( /\ ~this.directReading
             /\ NamesFile(last.req)
             /\ ~IsFilePath(build.files, RequestedFile(last.req))
             /\ \A n \in 1..Len(Candidates(last.req)) :
                    Candidates(last.req)[n] \notin StoreKeys )
           => Missed(last.req)

\* the entries of the Asset Store that are not sentinels, as a set
StoreEntries ==
    {AssetStore[i] : i \in {j \in 1..Len(AssetStore) :
                               AssetStore[j].key \notin SentinelKeys}}

\* what a full walk of the current rootDir takes: the files that pass the
\* two tests of search, under url + (path minus rootDir), and the root with
\* every directory below it, as a path from the root
Walked(node) ==
    /\ HasMine(this, node[Len(node)])
    /\ ~TooLarge(files[node].size, this.bufferingMaxSize)

WalkEntries ==
    {[key |-> PublicKey(node), value |-> files[node]] :
        node \in {n \in FilesUnderRoot : Walked(n)}}

WalkDirectories ==
    { <<"/">> } \cup
    {JoinNames(SubSeq(d, Len(RootNode) + 1, Len(d))) : d \in {n \in Dirs : UnderRoot(n)}}

(***************************************************************************)
(* C13: after the constructor and after every call of setting that         *)
(* returns, the Asset Store and the Directory Index are exactly what a     *)
(* full walk under the current options gives; whatever an earlier build or *)
(* an earlier addBuffer put there is gone (with buffering off nothing is   *)
(* built, so nothing is there).                                            *)
(***************************************************************************)
C13_SettingRebuildsInFull ==
    (last.op \in {"new", "setting"} /\ last.ret = "ok") =>
        IF this.buffering
        THEN StoreEntries = WalkEntries /\ DirectorySet = WalkDirectories
        ELSE StoreEntries = {} /\ DirectorySet = {}

\* the entries of a store, as a set
EntriesOf(store) == {store[i] : i \in 1..Len(store)}

\* the last call of addBuffer since the last build
LastAdded == build.added[Len(build.added)]

\* an access URL: a path from the root of the site
IsAccessUrl(p) == p # <<>> /\ p[1] = "/" /\ NormalPath(p) = p

(***************************************************************************)
(* C14: addBuffer(p, c) with p an access URL puts the one entry p -> c in  *)
(* the Asset Store and changes no other entry, and until the next rebuild  *)
(* a listen call for the URL p responds 200 with body c.                   *)
(***************************************************************************)
C14_AddBufferServes ==
    [][ /\ ( /\ last'.op = "addBuffer"
             /\ IsAccessUrl(LastAdded'.filePath) )
           => EntriesOf(this'.buffers) =
                  {e \in EntriesOf(this.buffers) : e.key # LastAdded'.filePath}
                      \cup {[key |-> LastAdded'.filePath, value |-> LastAdded'.content]}
        /\ ( /\ last'.op = "listen"
             /\ build.added # <<>>
             /\ IsAccessUrl(LastAdded.filePath)
             /\ last'.req = LastAdded.filePath )
           => ( /\ last'.ret = "true"
                /\ last'.res.statusCode = 200
                /\ last'.res.body = <<BytesChunk(LastAdded.content)>>
                /\ last'.res.ended = 1 )
      ]_vars

\* the key a request resolved to, and the extension of its last name
ResolvedKey(req) == GetUrl(files, this, req).val

KeyExtension(key) ==
    LET names == NonEmptyNames(SplitSlash(key))
    IN  IF names = <<>> THEN <<>> ELSE FileExtension(names)

(***************************************************************************)
(* C15: when the path of a listen call resolves, the extension of the      *)
(* resolved key has an entry in mimes, and the response sent has status    *)
(* 200 and that entry as its content-type header, whatever content-type    *)
(* the headers option held.                                                *)
(***************************************************************************)
C15_ContentTypeFromMimes ==
    (Listened /\ ~Missed(last.req)) =>
        LET ext == KeyExtension(ResolvedKey(last.req))
        IN  /\ ext \in DOMAIN this.mimes
            /\ last.ret = "true" =>
                   /\ last.res.statusCode = 200
                   /\ ObjHas(last.res.headers, "content-type")
                   /\ ObjGet(last.res.headers, "content-type") = this.mimes[ext]

\* the headers of the headers option: content-type is the entry listen
\* writes itself
ConfiguredHeaders ==
    {this.headers[i] : i \in {j \in 1..Len(this.headers) :
                                 this.headers[j].key # "content-type"}}

(***************************************************************************)
(* C16: every response of status 200 that listen completes, the listing    *)
(* page included, carries every header of the headers option, name and     *)
(* value.                                                                  *)
(***************************************************************************)
C16_HeadersOnEverySuccess ==
    (Listened /\ last.ret = "true" /\ last.res.statusCode = 200 /\ last.res.ended = 1) =>
        \A h \in ConfiguredHeaders :
            /\ ObjHas(last.res.headers, h.key)
            /\ ObjGet(last.res.headers, h.key) = h.value

\* the part of a request URL before its first "?"
PathOnly(req) ==
    LET marks == {i \in 1..Len(req) : req[i] = "?"}
    IN  IF marks = {} THEN req ELSE SubSeq(req, 1, First(marks) - 1)

\* query strings, "?" included; the last one has a second "?" and ends
\* with a slash
Queries == { <<"?">>, <<"?", "q">>, <<"?", "q", "?", "/">> }

(***************************************************************************)
(* C17: a listen call gives the same return value, status, headers and     *)
(* body as a call for the path alone and as a call for the path with any   *)
(* query string: what follows the first "?" plays no part in resolution,   *)
(* directory detection or the listing page.  The calls compared are made   *)
(* on the instance as the first call left it: a call changes nothing but   *)
(* the content-type entry of headers, which every call that reads it sets  *)
(* first.                                                                  *)
(***************************************************************************)
C17_QueryIgnored ==
    Listened =>
        \A q \in {<<>>} \cup Queries :
            Outcome(Listen(files, this, PathOnly(last.req) \o q, NewResponse))
                = Outcome(last)

\* a request with a query for a directory, with trailing slash, answered
\* with the listing of the directory
C17_Witness ==
    /\ Listened
    /\ last.req = Str(NameD) \o <<"/", "?", "q">>
    /\ ListingPage
    /\ last.res.body[1].url = Str(NameD)
    /\ last.res.body[1].lists # <<>>

(***************************************************************************)
(* C18: a call of setting or updateBuffer that throws (a directory or file *)
(* of the walk, or the not-found page, could not be read) leaves the Asset *)
(* Store and the Directory Index as they were before the call, so the next *)
(* listen sees the complete ones of the build before.                      *)
(***************************************************************************)
C18_FailedRebuildKeepsStore ==
    [][ (last'.op \in {"setting", "updateBuffer"} /\ last'.ret = "threw")
        => ( /\ this'.buffers = this.buffers
             /\ this'.directoryBuffers = this.directoryBuffers ) ]_vars

\* the files the last build saw under the root directory
BuiltFilesUnderRoot == {node \in DOMAIN build.files : UnderRoot(node)}

(***************************************************************************)
(* C19: in every state, every entry of the Asset Store (the two sentinel   *)
(* entries aside) holds the bytes of a file under rootDir whose extension  *)
(* has an entry in the current mimes, and is no larger than the current    *)
(* bufferingMaxSize.                                                       *)
(***************************************************************************)
C19_StoreEntriesAllowed ==
    \A e \in StoreEntries :
        /\ e.value.size <= this.bufferingMaxSize
        /\ \E node \in BuiltFilesUnderRoot :
               /\ PublicKey(node) = e.key
               /\ build.files[node] = e.value
               /\ HasMimeEntry(node)

\* a directory under the root as the site names it: url + (path minus
\* rootDir)
PublicDirectory(d) ==
    JoinNames(NonEmptyNames(SplitSlash(this.url))
                  \o SubSeq(d, Len(RootNode) + 1, Len(d)))

\* the assets that the walk buffered from the files below directory d
AssetsBelow(d) ==
    {e \in StoreEntries :
        \E node \in FilesUnderRoot :
            /\ Len(node) > Len(d)
            /\ SubSeq(node, 1, Len(d)) = d
            /\ PublicKey(node) = e.key}

(***************************************************************************)
(* C20: after a build completes, the Directory Index holds the root and,   *)
(* of the directories below rootDir, exactly those with at least one       *)
(* buffered asset somewhere below them; each is indexed under a path that  *)
(* is a prefix of the keys of those assets, for every url prefix.          *)
(***************************************************************************)
C20_IndexedIffAncestor ==
    BuildCompleted =>
        /\ <<"/">> \in DirectorySet
        /\ \A d \in {n \in Dirs : UnderRoot(n)} :
               /\ PublicDirectory(d) \in DirectorySet <=> AssetsBelow(d) # {}
               /\ \A e \in AssetsBelow(d) :
                      StartsWith(e.key, PublicDirectory(d) \o <<"/">>)
        /\ Cardinality(DirectorySet) =
               1 + Cardinality({d \in Dirs : UnderRoot(d) /\ AssetsBelow(d) # {}})

\* the string has two slashes in a row
HasDoubleSlash(p) == \E i \in 1..(Len(p) - 1) : p[i] = "/" /\ p[i + 1] = "/"

(***************************************************************************)
(* C21: in every state, every key of the Asset Store that is not a         *)
(* sentinel starts with the current url and has no "//" in it, whatever    *)
(* rootDir, url and file path the build or addBuffer was given (trailing   *)
(* slashes and runs of three slashes included).                            *)
(***************************************************************************)
C21_KeysNormalized ==
    \A e \in StoreEntries :
        /\ StartsWith(e.key, this.url)
        /\ ~HasDoubleSlash(e.key)

(***************************************************************************)
(* C22: with notFound a file name, the 404 response for a miss carries the *)
(* content of the file at the configured path in both modes: as the last   *)
(* build read it with buffering on, as it is on disk at the request with   *)
(* buffering off.                                                          *)
(***************************************************************************)
C22_NotFoundSameFile ==
    ( /\ Listened
      /\ this.notFound.type = "string"
      /\ Missed(last.req)
      /\ ~ListingApplies(last.req)
      /\ IF this.buffering THEN build.ran /\ build.ok
         ELSE ~this.listNavigator /\ IsFilePath(files, this.notFound.str) )
    => Responded(404, BytesChunk(ReadFileSync(
           IF this.buffering THEN build.files ELSE files, this.notFound.str)))

(***************************************************************************)
(* C23: a listen call that returns true has ended the response exactly     *)
(* once; a listen call that returns false has set no status, written       *)
(* nothing and not ended the response; for every buffering, directReading, *)
(* listNavigator and notFound.                                             *)
(***************************************************************************)
C23_EndedOnceOrUntouched ==
    Listened =>
        /\ last.ret = "true" => last.res.ended = 1
        /\ last.ret = "false" => last.res = NewResponse

\* the instance with the headers as they were configured: without the
\* content-type entry that listen leaves there
Unserved(t) ==
    [t EXCEPT !.headers = SelectSeq(@, LAMBDA h : h.key # "content-type")]

(***************************************************************************)
(* C24: a listen call leaves the Asset Store and the Directory Index as    *)
(* they were, and after it every request gets the return value, status,    *)
(* headers and body that an instance with the same options, store, index   *)
(* and files gets when it has served nothing yet: the outcome of a request *)
(* does not depend on the requests handled earlier.                        *)
(***************************************************************************)
C24_ListenKeepsNoState ==
    /\ [][ last'.op = "listen" =>
               /\ this'.buffers = this.buffers
               /\ this'.directoryBuffers = this.directoryBuffers ]_vars
    /\ [](Listened =>
               \A r \in Requests :
                   Outcome(Listen(files, this, r, NewResponse))
                       = Outcome(Listen(files, Unserved(this), r, NewResponse)))

\* a miss handled after a request that had resolved (its content-type is
\* still in headers), answered as an instance that served nothing answers
C24_Witness ==
    /\ Listened
    /\ Missed(last.req)
    /\ last.ret = "true"
    /\ ObjHas(this.headers, "content-type")
    /\ Unserved(this) # this
    /\ Outcome(last) = Outcome(Listen(files, Unserved(this), last.req, NewResponse))

\* the entries under the two reserved keys
SentinelEntries ==
    {AssetStore[i] : i \in {j \in 1..Len(AssetStore) :
                               AssetStore[j].key \in SentinelKeys}}

(***************************************************************************)
(* C25: no request path that begins with "/" resolves to "#notfound" or    *)
(* "#listNavigator", and under a url that begins with "/" no walk and no   *)
(* addBuffer call puts an entry under either key: what is there is the     *)
(* not-found page or the listing template that updateBuffer read.          *)
(***************************************************************************)
C25_SentinelsUnreachable ==
    /\ \A req \in Requests :
           (req[1] = "/" /\ ~Missed(req)) => ResolvedKey(req) \notin SentinelKeys
    /\ this.url[1] = "/" =>
           \A e \in SentinelEntries :
               IF e.key = BufferNameNotFound
               THEN /\ this.notFound.type = "string"
                    /\ e.value = ReadFileSync(build.files, this.notFound.str)
               ELSE e.value = ListNavigatorTemplate

\* a request for "/#notfound", with the not-found page and the listing
\* template in the store, after a call of addBuffer: a miss, answered 404
\* with the page
C25_Witness ==
    /\ Listened
    /\ last.req = <<"/", "#notfound">>
    /\ build.added # <<>>
    /\ SentinelKeys \subseteq StoreKeys
    /\ Missed(last.req)
    /\ Responded(404, BytesChunk(ObjGet(AssetStore, BufferNameNotFound)))

(***************************************************************************)
(* C26: in every state, the states left by a call that threw included,     *)
(* with buffering on the Asset Store holds "#notfound" when notFound is a  *)
(* file name and "#listNavigator" when listNavigator is on.                *)
(***************************************************************************)
C26_SentinelsPresent ==
    this.buffering =>
        /\ this.notFound.type = "string" => BufferNameNotFound \in StoreKeys
        /\ this.listNavigator => BufferNameListNavigator \in StoreKeys

\* the node is the root directory or lies below it
InsideRoot(node) == node = RootNode \/ UnderRoot(node)

\* the node that rootDir + "/" + path names on disk
DiskNode(path) == ResolvePath(files, this.rootDir \o <<"/">> \o path)

(***************************************************************************)
(* C27: whatever the request path, ".." segments included, a path that     *)
(* listen finds on disk (direct reading) and a file whose content it reads *)
(* from disk and sends (buffering off) lie inside rootDir.                 *)
(***************************************************************************)
C27_ReadsStayInsideRoot ==
    Listened =>
        /\ this.directReading =>
               \A n \in 1..Len(Candidates(last.req)) :
                   DiskNode(Candidates(last.req)[n]) # NoNode
                       => InsideRoot(DiskNode(Candidates(last.req)[n]))
        /\ (~this.buffering /\ ~Missed(last.req) /\ last.ret = "true")
               => InsideRoot(DiskNode(ResolvedKey(last.req)))

====
